---- MODULE Spec2Model ----
(***************************************************************************)
(* State-machine model of ApexMixedPrecisionPlugin                         *)
(* (pytorch_lightning/plugins/precision/apex_amp.py).                      *)
(*                                                                         *)
(* One action per method of the plugin.  Each action models the whole      *)
(* method; the order of the calls a method makes is kept in call.events.   *)
(* The apex backend (amp), the base class (super) and torch are            *)
(* outside the file: their calls are events, and their results are inputs  *)
(* drawn from small sets.                                                  *)
(***************************************************************************)
EXTENDS Integers, Sequences, FiniteSets, TLC

VARIABLES
    apexAvailable,     \* _APEX_AVAILABLE
    plugin,            \* "none" | "constructed" | "failed": outcome of __init__
    amp_level,         \* self.amp_level
    connected,         \* self._connected
    lightning_module,  \* trainer.lightning_module
    optimizers,        \* trainer.accelerator.optimizers
    ampInitLog,        \* one entry per amp.initialize call made so far
    dispatchCalls,     \* number of dispatch calls made so far
    ampState,          \* the backend's scaler state (amp.state_dict())
    grads,             \* form of each optimizer's gradients
    scopeOpen,         \* number of amp.scale_loss scopes currently open
    checkpoint,        \* the driver's checkpoint mapping
    savedState,        \* <<S>> when checkpoint was written by on_save_checkpoint at scaler state S
    schedulers,        \* the driver's lr scheduler configs
    call               \* the last plugin call: its arguments, events and outcome

vars == <<apexAvailable, plugin, amp_level, connected, lightning_module, optimizers, ampInitLog, dispatchCalls, ampState, grads, scopeOpen, checkpoint, savedState, schedulers, call>>

(***************************************************************************)
(* Bounds                                                                  *)
(***************************************************************************)
MaxDispatch == 2
MaxScaleExp == 1
MaxEpoch == 2

(***************************************************************************)
(* Values                                                                  *)
(***************************************************************************)
AmpLevels == {"O1", "O2"}

UserOptimizers == <<"sgd", "lbfgs">>

AmpOptimizers == <<"amp_sgd", "amp_lbfgs">>

OptimizerObjects == {"sgd", "lbfgs", "amp_sgd", "amp_lbfgs"}

LBFGS == {"lbfgs", "amp_lbfgs"}

Range(s) == {s[i] : i \in 1..Len(s)}

Pow2(k) == IF k = 0 THEN 1 ELSE IF k = 1 THEN 2 ELSE IF k = 2 THEN 4 ELSE 8

\* the scaler state: the loss scale and the clean steps since it last moved,
\* with a scale window of two steps
ScalerStates == [loss_scale : {Pow2(k) : k \in 0..MaxScaleExp}, unskipped : {0, 1}]

Losses == {3}

NoCall == [op |-> "none", events |-> <<>>, raised |-> "none"]

(***************************************************************************)
(* __init__                                                                *)
(***************************************************************************)
BackendMissing_deferred == FALSE

\* if not _APEX_AVAILABLE
BackendMissing == ~apexAvailable

__init__(level) ==
    /\ plugin = "none"
    /\ IF BackendMissing
       THEN /\ plugin' = "failed"
            /\ call' = [op |-> "__init__", events |-> <<>>, raised |-> "MisconfigurationException", hint |-> "Install apex", level |-> level]
            /\ UNCHANGED <<amp_level, connected>>
       ELSE /\ plugin' = "constructed"
            /\ amp_level' = level
            /\ connected' = FALSE
            /\ call' = [op |-> "__init__", events |-> <<"super.__init__">>, raised |-> "none", hint |-> "", level |-> level]
    /\ UNCHANGED <<apexAvailable, lightning_module, optimizers, ampInitLog, dispatchCalls, ampState, grads, scopeOpen, checkpoint, savedState, schedulers>>

(***************************************************************************)
(* dispatch                                                                *)
(***************************************************************************)
\* The optimizer lists amp.initialize may hand back for opts: the same
\* objects patched in place, or replacement objects.
AmpInitializeResults(opts) == {opts, [i \in 1..Len(opts) |-> AmpOptimizers[i]]}

NeedsInitialize_always == TRUE

\* if not self._connected
NeedsInitialize == ~connected

ConnectedAfterInitialize_forgotten == connected

\* self._connected = True
ConnectedAfterInitialize == TRUE

ConnectedAfterFailure_setFirst == TRUE

\* amp.initialize raised: the assignment after it is not reached
ConnectedAfterFailure == connected

ModelAfterInitialize_committed(newModel) == newModel

\* _, accelerator.optimizers = ...: the model amp.initialize returns is bound to _
ModelAfterInitialize(newModel) == lightning_module

FirstDispatchEvents_baseFirst == <<"super.dispatch", "amp.initialize", "set accelerator.optimizers">>

\* the calls of a dispatch that initializes: amp.initialize, the assignment
\* to accelerator.optimizers, then super().dispatch(trainer)
FirstDispatchEvents == <<"amp.initialize", "set accelerator.optimizers", "super.dispatch">>

dispatch(outcome, newModel, newOpts) ==
    /\ plugin = "constructed"
    /\ dispatchCalls < MaxDispatch
    /\ dispatchCalls' = dispatchCalls + 1
    /\ IF NeedsInitialize
       THEN /\ ampInitLog' = Append(ampInitLog, [outcome |-> outcome, model |-> lightning_module, optimizers |-> optimizers, opt_level |-> amp_level, returned |-> newOpts])
            /\ IF outcome = "raise"
               THEN /\ call' = [op |-> "dispatch", events |-> <<"amp.initialize">>, raised |-> "BackendError", connected_before |-> connected, returned_model |-> "none"]
                    /\ connected' = ConnectedAfterFailure
                    /\ UNCHANGED <<optimizers, lightning_module>>
               ELSE /\ optimizers' = newOpts
                    /\ lightning_module' = ModelAfterInitialize(newModel)
                    /\ connected' = ConnectedAfterInitialize
                    /\ call' = [op |-> "dispatch", events |-> FirstDispatchEvents, raised |-> "none", connected_before |-> connected, returned_model |-> newModel]
       ELSE /\ call' = [op |-> "dispatch", events |-> <<"super.dispatch">>, raised |-> "none", connected_before |-> connected, returned_model |-> "none"]
            /\ UNCHANGED <<ampInitLog, optimizers, connected, lightning_module>>
    /\ UNCHANGED <<apexAvailable, plugin, amp_level, ampState, grads, scopeOpen, checkpoint, savedState, schedulers>>

(***************************************************************************)
(* backward                                                                *)
(***************************************************************************)
EffectiveOptimizers_first(optimizer) == IF optimizer # "None" THEN <<optimizer>> ELSE <<optimizers[1]>>

\* opt = optimizer or model.trainer.optimizers: the optimizers the scope is keyed on
EffectiveOptimizers(optimizer) == IF optimizer # "None" THEN <<optimizer>> ELSE optimizers

\* amp.scale_loss.__enter__ yields the loss multiplied by the current loss scale
ScaledLoss(closure_loss) == closure_loss * ampState.loss_scale

\* the inner backward accumulates scaled gradients into the optimizers of the scope
GradsAfterInner(opt, wrote) == [o \in OptimizerObjects |-> IF wrote /\ o \in Range(opt) THEN "scaled" ELSE grads[o]]

\* amp.scale_loss.__exit__ unscales the gradients of the optimizers of the scope
GradsAfterExit(g, opt) == [o \in OptimizerObjects |-> IF o \in Range(opt) THEN "unscaled" ELSE g[o]]

\* the loss scaler's update when a scope closes normally: halve on overflow,
\* double after a window of clean steps
UpdateScale(s, overflow) ==
    IF overflow
    THEN [loss_scale |-> IF s.loss_scale > 1 THEN s.loss_scale \div 2 ELSE 1, unskipped |-> 0]
    ELSE IF s.unskipped + 1 \in {u.unskipped : u \in ScalerStates}
    THEN [loss_scale |-> s.loss_scale, unskipped |-> s.unskipped + 1]
    ELSE [loss_scale |-> IF s.loss_scale < Pow2(MaxScaleExp) THEN s.loss_scale * 2 ELSE s.loss_scale, unskipped |-> 0]

InnerLoss_original(closure_loss) == closure_loss

\* with ... as closure_loss: the name is rebound to what the scope yields
\* before super().backward(model, closure_loss, ...) is called
InnerLoss(closure_loss) == ScaledLoss(closure_loss)

ExitRuns_onSuccessOnly(inner) == inner = "ok"

\* the with statement runs __exit__ on the normal and on the raising path
ExitRuns(inner) == TRUE

\* inner: "ok" | "raise", what super().backward does; wrote: whether it got as
\* far as writing gradients; overflow: whether the gradients overflowed
backward(closure_loss, optimizer, inner, wrote, overflow) ==
    /\ plugin = "constructed"
    /\ inner = "ok" => wrote
    /\ inner = "raise" => ~overflow
    /\ LET opt == EffectiveOptimizers(optimizer)
           entered == scopeOpen + 1
           g == GradsAfterInner(opt, wrote)
       IN  /\ scopeOpen' = IF ExitRuns(inner) THEN entered - 1 ELSE entered
           /\ grads' = IF ExitRuns(inner) THEN GradsAfterExit(g, opt) ELSE g
           /\ ampState' = IF inner = "ok" THEN UpdateScale(ampState, overflow) ELSE ampState
           /\ call' = [op |-> "backward", raised |-> IF inner = "ok" THEN "none" ELSE "BackwardError",
                       events |-> <<"amp.scale_loss.__enter__", "super.backward">> \o (IF ExitRuns(inner) THEN <<"amp.scale_loss.__exit__">> ELSE <<>>),
                       optimizer |-> optimizer, scope_optimizers |-> opt, scope_is_list |-> (optimizer = "None"),
                       closure_loss |-> closure_loss, loss_scale |-> ampState.loss_scale, inner_loss |-> InnerLoss(closure_loss), inner_wrote |-> wrote]
    /\ UNCHANGED <<apexAvailable, plugin, amp_level, connected, lightning_module, optimizers, ampInitLog, dispatchCalls, checkpoint, savedState, schedulers>>

(***************************************************************************)
(* optimizer_step                                                          *)
(***************************************************************************)
Models == {"LightningModule automatic", "LightningModule manual", "Module"}

IsLightningModule(model) == model \in {"LightningModule automatic", "LightningModule manual"}

AutomaticOptimization(model) == model = "LightningModule automatic"

IsIncompatible_unchecked(optimizer) == FALSE

\* isinstance(optimizer, LBFGS)
IsIncompatible(optimizer) == optimizer \in LBFGS

ShouldStep_moduleGated(model, skipped_backward) == (IsLightningModule(model) /\ ~AutomaticOptimization(model)) \/ ~skipped_backward

ShouldStep_always(model, skipped_backward) == TRUE

ShouldStep_unlessSkipped(model, skipped_backward) == ~skipped_backward

\* not isinstance(model, pl.LightningModule) or not model.automatic_optimization or not skipped_backward
ShouldStep(model, skipped_backward) == ~IsLightningModule(model) \/ ~AutomaticOptimization(model) \/ ~skipped_backward

ClosureOutcome_swallowed(closure) == IF closure = "raise" THEN "None" ELSE closure

\* closure_result = closure(): called bare, so what the closure does is what the call does
ClosureOutcome(closure) == closure

StepEvents_stepFirst(step) == <<"closure">> \o (IF step THEN <<"optimizer.step">> ELSE <<>>) \o <<"_after_closure">>

\* the calls of a step whose closure returns: closure(), self._after_closure(...), then optimizer.step(**kwargs) if the condition holds
StepEvents(step) == <<"closure", "_after_closure">> \o (IF step THEN <<"optimizer.step">> ELSE <<>>)

\* closure: "None" | "loss" | "raise", what the closure does when called
optimizer_step(model, optimizer, optimizer_idx, closure, overflow) ==
    /\ plugin = "constructed"
    /\ closure # "loss" => ~overflow
    /\ IF IsIncompatible(optimizer)
       THEN /\ call' = [op |-> "optimizer_step", raised |-> "MisconfigurationException", events |-> <<>>,
                        model |-> model, optimizer |-> optimizer, optimizer_idx |-> optimizer_idx, closure |-> closure, message_idx |-> optimizer_idx]
            /\ UNCHANGED ampState
       ELSE IF ClosureOutcome(closure) = "raise"
       THEN /\ call' = [op |-> "optimizer_step", raised |-> "ClosureError", events |-> <<"closure">>,
                        model |-> model, optimizer |-> optimizer, optimizer_idx |-> optimizer_idx, closure |-> closure, message_idx |-> -1]
            /\ UNCHANGED ampState
       ELSE LET skipped_backward == ClosureOutcome(closure) = "None"
                step == ShouldStep(model, skipped_backward)
            IN  /\ call' = [op |-> "optimizer_step", raised |-> "none",
                            events |-> StepEvents(step),
                            model |-> model, optimizer |-> optimizer, optimizer_idx |-> optimizer_idx, closure |-> closure, message_idx |-> -1]
                \* a closure that returns a loss has run a backward pass, which may move the loss scale
                /\ ampState' = IF closure = "loss" THEN UpdateScale(ampState, overflow) ELSE ampState
    /\ UNCHANGED <<apexAvailable, plugin, amp_level, connected, lightning_module, optimizers, ampInitLog, dispatchCalls, grads, scopeOpen, checkpoint, savedState, schedulers>>

(***************************************************************************)
(* on_save_checkpoint / on_load_checkpoint                                 *)
(***************************************************************************)
EmptyMapping == [k \in {} |-> 0]

Put_fresh(m, key, value) == [k \in {key} |-> value]

\* checkpoint[key] = value
Put(m, key, value) == [k \in DOMAIN m \cup {key} |-> IF k = key THEN value ELSE m[k]]

\* amp.state_dict(): one entry per loss scaler
AmpStateDict(s) == [loss_scaler0 |-> [loss_scale |-> s.loss_scale, unskipped |-> s.unskipped]]

\* a blob amp.load_state_dict rejects
BadBlob == [loss_scaler0 |-> [loss_scale |-> 0, unskipped |-> 0]]

AmpAccepts(blob) == blob.loss_scaler0 \in ScalerStates

\* amp.load_state_dict(blob): the scaler state after loading blob
AmpLoadStateDict(blob) == [loss_scale |-> blob.loss_scaler0.loss_scale, unskipped |-> blob.loss_scaler0.unskipped]

HasReservedKey_typo(ckpt) == "amp_scaling" \in DOMAIN ckpt

HasReservedKey_nonempty(ckpt) == DOMAIN ckpt # {}

\* "amp_scaling_state" in checkpoint
HasReservedKey(ckpt) == "amp_scaling_state" \in DOMAIN ckpt

on_save_checkpoint ==
    /\ plugin = "constructed"
    /\ checkpoint' = Put(checkpoint, "amp_scaling_state", AmpStateDict(ampState))
    /\ savedState' = <<ampState>>
    /\ call' = [op |-> "on_save_checkpoint", raised |-> "none", events |-> <<"amp.state_dict">>]
    /\ UNCHANGED <<apexAvailable, plugin, amp_level, connected, lightning_module, optimizers, ampInitLog, dispatchCalls, ampState, grads, scopeOpen, schedulers>>

on_load_checkpoint ==
    /\ plugin = "constructed"
    /\ IF HasReservedKey(checkpoint)
       THEN IF "amp_scaling_state" \notin DOMAIN checkpoint
            THEN \* checkpoint["amp_scaling_state"] on a mapping without the key
                 /\ call' = [op |-> "on_load_checkpoint", raised |-> "KeyError", events |-> <<>>, before |-> ampState, keys |-> DOMAIN checkpoint]
                 /\ UNCHANGED ampState
            ELSE IF AmpAccepts(checkpoint["amp_scaling_state"])
            THEN /\ ampState' = AmpLoadStateDict(checkpoint["amp_scaling_state"])
                 /\ call' = [op |-> "on_load_checkpoint", raised |-> "none", events |-> <<"amp.load_state_dict">>, before |-> ampState, keys |-> DOMAIN checkpoint]
            ELSE /\ call' = [op |-> "on_load_checkpoint", raised |-> "BackendError", events |-> <<"amp.load_state_dict">>, before |-> ampState, keys |-> DOMAIN checkpoint]
                 /\ UNCHANGED ampState
       ELSE /\ call' = [op |-> "on_load_checkpoint", raised |-> "none", events |-> <<>>, before |-> ampState, keys |-> DOMAIN checkpoint]
            /\ UNCHANGED ampState
    /\ UNCHANGED <<apexAvailable, plugin, amp_level, connected, lightning_module, optimizers, ampInitLog, dispatchCalls, grads, scopeOpen, checkpoint, savedState, schedulers>>

\* The checkpoint mappings the driver may hand to the plugin: any other keys,
\* without the reserved key (a checkpoint made without AMP) or with a blob the
\* backend rejects under it.
DriverCheckpoints ==
    LET other == {EmptyMapping, [k \in {"epoch"} |-> 0]}
    IN  other \cup {Put(m, "amp_scaling_state", BadBlob) : m \in other}

\* the driver of a constructed plugin builds or reads the checkpoint mapping it
\* will hand to on_save_checkpoint / on_load_checkpoint
DriverCheckpoint(m) ==
    /\ plugin = "constructed"
    /\ checkpoint' = m
    /\ checkpoint # m
    /\ savedState' = <<>>
    /\ call' = [op |-> "driver checkpoint", events |-> <<>>, raised |-> "none"]
    /\ UNCHANGED <<apexAvailable, plugin, amp_level, connected, lightning_module, optimizers, ampInitLog, dispatchCalls, ampState, grads, scopeOpen, schedulers>>

(***************************************************************************)
(* reinit_scheduler_properties                                             *)
(***************************************************************************)
SchedulerClasses == {"StepLR", "ReduceLROnPlateau", "CustomScheduler"}

\* scheduler.__class__.__mro__
Mro(cls) ==
    IF cls = "StepLR" THEN <<"StepLR", "_LRScheduler", "object">>
    ELSE IF cls = "ReduceLROnPlateau" THEN <<"ReduceLROnPlateau", "object">>
    ELSE <<"CustomScheduler", "object">>

RecognizedBases == {"_LRScheduler", "ReduceLROnPlateau"}

\* scheduler.state_dict(): every attribute but the optimizer
StateDict(sched) == [last_epoch |-> sched.last_epoch, num_bad_epochs |-> sched.num_bad_epochs]

\* base.__init__(scheduler, optimizer): binds the optimizer and starts the counters afresh
BaseInit(sched, base, optimizer) == [sched EXCEPT !.optimizer = optimizer, !.last_epoch = 0, !.num_bad_epochs = 0]

\* scheduler.load_state_dict(state)
LoadStateDict(sched, state) == [sched EXCEPT !.last_epoch = state.last_epoch, !.num_bad_epochs = state.num_bad_epochs]

Rebuild_noLoad(sched, base, optimizer) == BaseInit(sched, base, optimizer)

\* the three statements run for the first recognized base of the mro
Rebuild(sched, base, optimizer) == LoadStateDict(BaseInit(sched, base, optimizer), StateDict(sched))

\* the index of the first class of the mro that is a recognized base, 0 if none
FirstRecognized(mro) ==
    LET hits == {i \in 1..Len(mro) : mro[i] \in RecognizedBases}
    IN  IF hits = {} THEN 0 ELSE CHOOSE i \in hits : \A j \in hits : i <= j

BreaksAfterRebuild_missing == FALSE

\* if state is not None: break (state is the state_dict taken by the rebuild)
BreaksAfterRebuild == TRUE

\* the loop over optimizers from position j on, while state is None:
\* <<the scheduler, how many times a base constructor was re-run, the
\* position of the first optimizer it was re-run against (0 if none)>>
RECURSIVE ScanOptimizers(_, _, _)
ScanOptimizers(sched, opts, j) ==
    IF j > Len(opts) THEN <<sched, 0, 0>>
    ELSE IF sched.optimizer = opts[j] /\ FirstRecognized(Mro(sched.cls)) # 0
    THEN LET rebuilt == Rebuild(sched, Mro(sched.cls)[FirstRecognized(Mro(sched.cls))], opts[j])
             rest == ScanOptimizers(rebuilt, opts, j + 1)
         IN  IF BreaksAfterRebuild THEN <<rebuilt, 1, j>> ELSE <<rest[1], rest[2] + 1, j>>
    ELSE ScanOptimizers(sched, opts, j + 1)

reinit_scheduler_properties(opts) ==
    /\ schedulers' = [i \in 1..Len(schedulers) |-> ScanOptimizers(schedulers[i], opts, 1)[1]]
    /\ call' = [op |-> "reinit_scheduler_properties", raised |-> "none", events |-> <<>>, optimizers |-> opts, before |-> schedulers,
                rebuilt |-> [i \in 1..Len(schedulers) |-> ScanOptimizers(schedulers[i], opts, 1)[2]],
                rebuilt_at |-> [i \in 1..Len(schedulers) |-> ScanOptimizers(schedulers[i], opts, 1)[3]]]
    /\ UNCHANGED <<apexAvailable, plugin, amp_level, connected, lightning_module, optimizers, ampInitLog, dispatchCalls, ampState, grads, scopeOpen, checkpoint, savedState>>

\* the driver steps scheduler i
SchedulerStep(i) ==
    /\ schedulers[i].last_epoch < MaxEpoch
    /\ schedulers' = [schedulers EXCEPT ![i].last_epoch = @ + 1]
    /\ call' = [op |-> "scheduler.step", raised |-> "none", events |-> <<>>]
    /\ UNCHANGED <<apexAvailable, plugin, amp_level, connected, lightning_module, optimizers, ampInitLog, dispatchCalls, ampState, grads, scopeOpen, checkpoint, savedState>>

SchedulerOptimizers == {"sgd", "amp_sgd", "lbfgs"}

Schedulers == [optimizer : SchedulerOptimizers, cls : SchedulerClasses, last_epoch : 0..MaxEpoch, num_bad_epochs : {0}] \cup [optimizer : SchedulerOptimizers, cls : {"ReduceLROnPlateau"}, last_epoch : 0..MaxEpoch, num_bad_epochs : {1}]

OptimizerLists == {<<>>} \cup {<<a>> : a \in SchedulerOptimizers} \cup {<<a, b>> : a \in SchedulerOptimizers, b \in SchedulerOptimizers}

(***************************************************************************)
(* Specification                                                           *)
(***************************************************************************)
Init ==
    /\ apexAvailable \in BOOLEAN
    /\ plugin = "none"
    /\ amp_level = "unset"
    /\ connected = FALSE
    /\ lightning_module = "model"
    /\ optimizers = UserOptimizers
    /\ ampInitLog = <<>>
    /\ dispatchCalls = 0
    /\ ampState \in ScalerStates
    /\ grads = [o \in OptimizerObjects |-> "unscaled"]
    /\ scopeOpen = 0
    /\ checkpoint = EmptyMapping
    /\ savedState = <<>>
    /\ schedulers = <<>>
    /\ call = NoCall

Next ==
    \/ \E level \in AmpLevels : __init__(level)
    \/ \E outcome \in {"ok", "raise"}, newModel \in {lightning_module, "amp_model"}, newOpts \in AmpInitializeResults(optimizers) : dispatch(outcome, newModel, newOpts)
    \/ \E closure_loss \in Losses, optimizer \in {"None"} \cup Range(optimizers), inner \in {"ok", "raise"}, wrote \in BOOLEAN, overflow \in BOOLEAN : backward(closure_loss, optimizer, inner, wrote, overflow)
    \/ \E model \in Models, i \in 1..Len(optimizers), closure \in {"None", "loss", "raise"}, overflow \in BOOLEAN : optimizer_step(model, optimizers[i], i - 1, closure, overflow)
    \/ on_save_checkpoint
    \/ on_load_checkpoint
    \/ \E m \in DriverCheckpoints : DriverCheckpoint(m)

Spec == Init /\ [][Next]_vars

\* reinit_scheduler_properties is a static method: it is checked on its own,
\* over every list of one or two schedulers and every list of optimizers
InitSched ==
    /\ apexAvailable = TRUE
    /\ plugin = "none"
    /\ amp_level = "unset"
    /\ connected = FALSE
    /\ lightning_module = "model"
    /\ optimizers = UserOptimizers
    /\ ampInitLog = <<>>
    /\ dispatchCalls = 0
    /\ ampState = [loss_scale |-> 1, unskipped |-> 0]
    /\ grads = [o \in OptimizerObjects |-> "unscaled"]
    /\ scopeOpen = 0
    /\ checkpoint = EmptyMapping
    /\ savedState = <<>>
    /\ schedulers \in {<<a>> : a \in Schedulers} \cup {<<a, b>> : a \in Schedulers, b \in Schedulers}
    /\ call = NoCall

NextSched ==
    \/ \E opts \in OptimizerLists : reinit_scheduler_properties(opts)
    \/ \E i \in 1..Len(schedulers) : SchedulerStep(i)

SpecSched == InitSched /\ [][NextSched]_vars

(***************************************************************************)
(* Properties                                                              *)
(***************************************************************************)
Count(e, events) == Cardinality({i \in 1..Len(events) : events[i] = e})

\* C1: after one or more dispatch calls in which amp.initialize never raised,
\* amp.initialize has been called exactly once (so by the first dispatch), and
\* the driver's optimizer list is the list that call returned, whatever the
\* number of dispatch calls made since.
C1_InitializeOnce ==
    (dispatchCalls >= 1 /\ \A k \in 1..Len(ampInitLog) : ampInitLog[k].outcome = "ok") =>
        /\ Len(ampInitLog) = 1
        /\ ampInitLog[1].optimizers = UserOptimizers
        /\ optimizers = ampInitLog[1].returned

C1_Witness ==
    /\ dispatchCalls >= 2
    /\ Len(ampInitLog) = 1
    /\ ampInitLog[1].outcome = "ok"
    /\ optimizers = AmpOptimizers
    /\ call.op = "dispatch"

\* C2: an optimizer_step call on a LightningModule in automatic optimization
\* with a compatible optimizer does not call optimizer.step when the closure
\* returned None, and calls it exactly once when the closure returned a value.
C2_AutomaticGating ==
    (call.op = "optimizer_step" /\ call.model = "LightningModule automatic" /\ call.optimizer \notin LBFGS) =>
        /\ call.closure = "None" => Count("optimizer.step", call.events) = 0
        /\ call.closure = "loss" => Count("optimizer.step", call.events) = 1

C2_Witness ==
    /\ call.op = "optimizer_step"
    /\ call.model = "LightningModule automatic"
    /\ call.optimizer \notin LBFGS
    /\ call.closure = "None"
    /\ call.events = <<"closure", "_after_closure">>

\* C3: an optimizer_step call on a LightningModule in manual optimization with
\* a compatible optimizer calls optimizer.step exactly once, whether the
\* closure returned a value or None.
C3_ManualAlwaysSteps ==
    (call.op = "optimizer_step" /\ call.model = "LightningModule manual" /\ call.optimizer \notin LBFGS /\ call.closure \in {"None", "loss"}) =>
        Count("optimizer.step", call.events) = 1

C3_Witness ==
    /\ call.op = "optimizer_step"
    /\ call.model = "LightningModule manual"
    /\ call.optimizer \notin LBFGS
    /\ call.closure = "None"
    /\ call.events = <<"closure", "_after_closure", "optimizer.step">>

\* C4: an optimizer_step call with an LBFGS optimizer raises
\* MisconfigurationException naming the optimizer index, and runs neither the
\* closure, nor _after_closure, nor optimizer.step, whatever the model's mode.
C4_LBFGSRejected ==
    (call.op = "optimizer_step" /\ call.optimizer \in LBFGS) =>
        /\ call.raised = "MisconfigurationException"
        /\ call.message_idx = call.optimizer_idx
        /\ call.events = <<>>

C4_Witness ==
    /\ call.op = "optimizer_step"
    /\ call.optimizer = "amp_lbfgs"
    /\ call.model = "LightningModule manual"
    /\ call.closure = "loss"
    /\ call.raised = "MisconfigurationException"
    /\ call.message_idx = 1

\* C5: when the checkpoint at hand was written by on_save_checkpoint at scaler
\* state S, on_load_checkpoint returns normally and leaves the scaler state
\* equal to S, whatever the scaler state was just before the load.
C5_RoundTrip ==
    (call.op = "on_load_checkpoint" /\ savedState # <<>>) =>
        /\ call.raised = "none"
        /\ ampState = savedState[1]

C5_Witness ==
    /\ call.op = "on_load_checkpoint"
    /\ savedState # <<>>
    /\ call.before # savedState[1]
    /\ ampState = savedState[1]

\* C6: on_load_checkpoint on a mapping without the key "amp_scaling_state"
\* raises nothing, does not call amp.load_state_dict and leaves the scaler
\* state as it was, whatever other keys the mapping holds.
C6_MissingKeyNoOp ==
    (call.op = "on_load_checkpoint" /\ "amp_scaling_state" \notin call.keys) =>
        /\ call.raised = "none"
        /\ Count("amp.load_state_dict", call.events) = 0
        /\ ampState = call.before

C6_Witness ==
    /\ call.op = "on_load_checkpoint"
    /\ call.keys = {"epoch"}
    /\ call.raised = "none"
    /\ ampState = call.before

\* C7: when backward has returned or raised, the amp.scale_loss scope it
\* opened is closed and the gradients of the optimizers of the scope are in
\* unscaled form, also when the inner backward raised after writing scaled
\* gradients.
C7_ScopeReleased ==
    call.op = "backward" =>
        /\ scopeOpen = 0
        /\ \A o \in Range(call.scope_optimizers) : grads[o] = "unscaled"
        /\ Count("amp.scale_loss.__exit__", call.events) = 1

C7_Witness ==
    /\ call.op = "backward"
    /\ call.raised = "BackwardError"
    /\ call.inner_wrote
    /\ scopeOpen = 0
    /\ \A o \in Range(call.scope_optimizers) : grads[o] = "unscaled"

\* C8: without apex the constructor raises MisconfigurationException with the
\* installation hint, no plugin is ever constructed and no method of it is ever
\* called; with apex the constructor returns a plugin with _connected = False
\* and amp_level the level given.
C8_ConstructionPrecondition ==
    /\ ~apexAvailable => (plugin # "constructed" /\ call.op \in {"none", "__init__"})
    /\ (call.op = "__init__" /\ ~apexAvailable) =>
        (plugin = "failed" /\ call.raised = "MisconfigurationException" /\ call.hint = "Install apex")
    /\ (call.op = "__init__" /\ apexAvailable) =>
        (plugin = "constructed" /\ call.raised = "none" /\ ~connected /\ amp_level = call.level)

C8_Witness ==
    /\ ~apexAvailable
    /\ plugin = "failed"
    /\ call.op = "__init__"
    /\ call.raised = "MisconfigurationException"

\* C9: _connected is False when the constructor returns, is True after every
\* dispatch that returns normally, never goes from True to False, and changes
\* only in a dispatch call.
C9_ConnectedMonotone ==
    [][/\ (plugin = "none" /\ plugin' = "constructed") => ~connected'
       /\ (dispatchCalls' # dispatchCalls /\ call'.raised = "none") => connected'
       /\ connected => connected'
       /\ connected' # connected => dispatchCalls' # dispatchCalls]_vars

C9_Witness ==
    /\ connected
    /\ dispatchCalls >= 2
    /\ call.op = "on_load_checkpoint"
    /\ call.events = <<"amp.load_state_dict">>

\* C10: after reinit_scheduler_properties, every scheduler of a recognized
\* kind whose optimizer is in the optimizers list has the last_epoch it had
\* before the call (the base constructor having been re-run) and is bound to
\* the same optimizer.
C10_RepairPreservesState ==
    call.op = "reinit_scheduler_properties" =>
        \A i \in 1..Len(schedulers) :
            (FirstRecognized(Mro(call.before[i].cls)) # 0 /\ call.before[i].optimizer \in Range(call.optimizers)) =>
                /\ call.rebuilt[i] = 1
                /\ schedulers[i].last_epoch = call.before[i].last_epoch
                /\ schedulers[i].optimizer = call.before[i].optimizer

C10_Witness ==
    /\ call.op = "reinit_scheduler_properties"
    /\ \E i \in 1..Len(schedulers) :
        /\ call.before[i].cls = "StepLR"
        /\ call.before[i].optimizer \in Range(call.optimizers)
        /\ call.before[i].last_epoch = MaxEpoch
        /\ call.rebuilt[i] = 1
        /\ schedulers[i].last_epoch = MaxEpoch

\* C11: reinit_scheduler_properties leaves a scheduler as it was, with no base
\* constructor re-run, when its optimizer is none of the optimizers given or no
\* class of its mro is a recognized base; a scheduler with a match has the
\* base constructor re-run exactly once, against the first optimizer of the
\* list that is its own; whether one scheduler is rebuilt does not depend on
\* the others.
C11_UnmatchedUntouched ==
    call.op = "reinit_scheduler_properties" =>
        \A i \in 1..Len(schedulers) :
            LET before == call.before[i]
                matches == {j \in 1..Len(call.optimizers) : call.optimizers[j] = before.optimizer}
                recognized == \E c \in Range(Mro(before.cls)) : c \in RecognizedBases
            IN  /\ (matches = {} \/ ~recognized) => (call.rebuilt[i] = 0 /\ call.rebuilt_at[i] = 0 /\ schedulers[i] = before)
                /\ (matches # {} /\ recognized) => (call.rebuilt[i] = 1 /\ call.rebuilt_at[i] \in matches /\ \A j \in matches : call.rebuilt_at[i] <= j)
                /\ call.rebuilt[i] <= 1

C11_Witness ==
    /\ call.op = "reinit_scheduler_properties"
    /\ Len(schedulers) = 2
    /\ call.optimizers = <<"amp_sgd", "amp_sgd">>
    /\ call.before[1].optimizer = "amp_sgd"
    /\ call.before[1].cls = "ReduceLROnPlateau"
    /\ call.rebuilt[1] = 1
    /\ call.rebuilt_at[1] = 1
    /\ call.before[2].optimizer = "lbfgs"
    /\ call.before[2].cls = "StepLR"
    /\ call.before[2].last_epoch = 1
    /\ call.rebuilt[2] = 0
    /\ schedulers[2] = call.before[2]

\* C12: an on_save_checkpoint call adds or overwrites the key
\* "amp_scaling_state" and leaves every other key of the mapping and its value
\* as they were; an on_load_checkpoint call leaves the mapping as it was.
C12_OnlyReservedKey ==
    [][/\ call'.op = "on_save_checkpoint" =>
            /\ DOMAIN checkpoint' = DOMAIN checkpoint \cup {"amp_scaling_state"}
            /\ \A k \in DOMAIN checkpoint \ {"amp_scaling_state"} : checkpoint'[k] = checkpoint[k]
       /\ call'.op = "on_load_checkpoint" => checkpoint' = checkpoint]_vars

C12_Witness ==
    /\ call.op = "on_save_checkpoint"
    /\ DOMAIN checkpoint = {"epoch", "amp_scaling_state"}
    /\ checkpoint["epoch"] = 0
    /\ checkpoint["amp_scaling_state"] = AmpStateDict(ampState)

\* C13: an optimizer_step call with a compatible optimizer calls the closure
\* exactly once and first; when the closure returns, _after_closure is called
\* exactly once right after it, also when the step is suppressed, and
\* optimizer.step, if called, is called once and last; when the closure
\* raises, nothing is called after it.
C13_StepOrder ==
    (call.op = "optimizer_step" /\ call.optimizer \notin LBFGS) =>
        /\ Count("closure", call.events) = 1
        /\ call.events[1] = "closure"
        /\ call.closure # "raise" =>
            /\ call.raised = "none"
            /\ Count("_after_closure", call.events) = 1
            /\ call.events[2] = "_after_closure"
            /\ Len(call.events) = 2 + Count("optimizer.step", call.events)
            /\ Count("optimizer.step", call.events) <= 1
        /\ call.closure = "raise" => call.events = <<"closure">>

C13_Witness ==
    /\ call.op = "optimizer_step"
    /\ call.optimizer = "amp_sgd"
    /\ call.model = "LightningModule automatic"
    /\ call.closure = "loss"
    /\ call.events = <<"closure", "_after_closure", "optimizer.step">>

\* C17: an error raised by the closure leaves optimizer_step as it is, with
\* neither _after_closure nor optimizer.step called; an error raised by
\* amp.load_state_dict leaves on_load_checkpoint as it is, with the scaler
\* state as it was; a missing key is the only case on_load_checkpoint skips.
C17_ErrorsPropagate ==
    /\ (call.op = "optimizer_step" /\ call.optimizer \notin LBFGS /\ call.closure = "raise") =>
        /\ call.raised = "ClosureError"
        /\ call.events = <<"closure">>
    /\ (call.op = "on_load_checkpoint" /\ "amp_scaling_state" \in call.keys) =>
        /\ call.events = <<"amp.load_state_dict">>
        /\ ~AmpAccepts(checkpoint["amp_scaling_state"]) => (call.raised = "BackendError" /\ ampState = call.before)

C17_Witness ==
    /\ call.op = "optimizer_step"
    /\ call.optimizer = "sgd"
    /\ call.model = "LightningModule manual"
    /\ call.closure = "raise"
    /\ call.raised = "ClosureError"
    /\ call.events = <<"closure">>

\* C19: an optimizer_step call on a plain Module with a compatible optimizer
\* calls optimizer.step exactly once whether the closure returned a value or
\* None; a call that returns without having called optimizer.step is a call on
\* a LightningModule in automatic optimization whose closure returned None.
C19_PlainModuleAlwaysSteps ==
    call.op = "optimizer_step" =>
        /\ (call.model = "Module" /\ call.optimizer \notin LBFGS /\ call.closure \in {"None", "loss"}) =>
            Count("optimizer.step", call.events) = 1
        /\ (call.raised = "none" /\ Count("optimizer.step", call.events) = 0) =>
            (call.model = "LightningModule automatic" /\ call.closure = "None")

C19_Witness ==
    /\ call.op = "optimizer_step"
    /\ call.model = "Module"
    /\ call.optimizer \notin LBFGS
    /\ call.closure = "None"
    /\ call.events = <<"closure", "_after_closure", "optimizer.step">>

\* C14: a backward call enters amp.scale_loss once, calls super().backward
\* once, after the enter and before the exit, with the loss times the loss
\* scale in place of the loss it was given, and has left the scope when it
\* ends; no amp.scale_loss scope is open in any state between two calls.
C14_ScaledOnceInsideScope ==
    /\ scopeOpen = 0
    /\ call.op = "backward" =>
        /\ call.events = <<"amp.scale_loss.__enter__", "super.backward", "amp.scale_loss.__exit__">>
        /\ call.inner_loss = call.closure_loss * call.loss_scale

C14_Witness ==
    /\ call.op = "backward"
    /\ call.raised = "none"
    /\ call.loss_scale = 2
    /\ call.inner_loss = 2 * call.closure_loss
    /\ scopeOpen = 0

\* C15 as stated: the scope is keyed on the optimizer argument when one is
\* given, and otherwise on one optimizer, the model's sole or active one.
C15_SoleOptimizer ==
    call.op = "backward" =>
        /\ call.optimizer # "None" => call.scope_optimizers = <<call.optimizer>>
        /\ call.optimizer = "None" => (Len(call.scope_optimizers) = 1 /\ ~call.scope_is_list)

\* C15, amended: the scope is keyed on the optimizer argument when one is
\* given, and otherwise on the whole list model.trainer.optimizers, every
\* optimizer of the trainer in the trainer's order.
C15_ScopeKey ==
    call.op = "backward" =>
        /\ call.optimizer # "None" => (call.scope_optimizers = <<call.optimizer>> /\ ~call.scope_is_list)
        /\ call.optimizer = "None" => (call.scope_optimizers = optimizers /\ call.scope_is_list)

C15_Witness ==
    /\ call.op = "backward"
    /\ call.optimizer = "None"
    /\ call.scope_is_list
    /\ call.scope_optimizers = <<"amp_sgd", "amp_lbfgs">>

\* C16: a dispatch call that returns has called super().dispatch exactly once
\* and last: when _connected was False, after amp.initialize and after the
\* assignment of the returned optimizers to the driver; when _connected was
\* True, as its only call, with no amp.initialize.
C16_BaseDispatchOnce ==
    (call.op = "dispatch" /\ call.raised = "none") =>
        /\ Count("super.dispatch", call.events) = 1
        /\ call.events[Len(call.events)] = "super.dispatch"
        /\ call.connected_before => call.events = <<"super.dispatch">>
        /\ ~call.connected_before =>
            /\ call.events = <<"amp.initialize", "set accelerator.optimizers", "super.dispatch">>
            /\ optimizers = ampInitLog[Len(ampInitLog)].returned

C16_Witness ==
    /\ call.op = "dispatch"
    /\ call.raised = "none"
    /\ call.connected_before
    /\ call.events = <<"super.dispatch">>
    /\ Len(ampInitLog) = 1

\* C18: a dispatch call in which amp.initialize raised leaves _connected False
\* and the driver's optimizers as they were and does not call super().dispatch;
\* as long as _connected is False every dispatch call has called
\* amp.initialize; _connected is True only if an amp.initialize call returned.
C18_FailedInitializeRetried ==
    /\ (call.op = "dispatch" /\ call.raised = "BackendError") =>
        /\ ~connected
        /\ optimizers = ampInitLog[Len(ampInitLog)].optimizers
        /\ Count("super.dispatch", call.events) = 0
    /\ ~connected => (Len(ampInitLog) = dispatchCalls /\ \A k \in 1..Len(ampInitLog) : ampInitLog[k].outcome = "raise")
    /\ connected => \E k \in 1..Len(ampInitLog) : ampInitLog[k].outcome = "ok"

C18_Witness ==
    /\ dispatchCalls = 2
    /\ Len(ampInitLog) = 2
    /\ ampInitLog[1].outcome = "raise"
    /\ ampInitLog[2].outcome = "ok"
    /\ connected
    /\ call.op = "dispatch"

\* C20: no step changes the driver's model, whatever model amp.initialize
\* returned; the driver's optimizer list changes only in a dispatch call, to
\* the list amp.initialize returned in it.
C20_DispatchFrame ==
    [][/\ lightning_module' = lightning_module
       /\ optimizers' # optimizers =>
            /\ dispatchCalls' # dispatchCalls
            /\ Len(ampInitLog') = Len(ampInitLog) + 1
            /\ optimizers' = ampInitLog'[Len(ampInitLog')].returned]_vars

C20_Witness ==
    /\ call.op = "dispatch"
    /\ call.returned_model = "amp_model"
    /\ lightning_module = "model"
    /\ optimizers = AmpOptimizers
====
